---- MODULE Spec2Model ----
(***************************************************************************)
(* Model of backend/app.py: the single-endpoint HTTP gateway               *)
(* (SimpleHandler over http.server.HTTPServer) with shared-secret          *)
(* authentication, a sliding-window rate limiter kept in REQUEST_LOGS, one *)
(* upstream call to the text-generation endpoint and the normalisation of  *)
(* its answer.                                                             *)
(*                                                                         *)
(* Time: time.time() is a float number of seconds.  The model counts time  *)
(* in ticks of 1/TicksPerSecond second, so that sub-second instants exist; *)
(* a timestamp t of the model is the float t / TicksPerSecond.             *)
(* Text: a Python str is a sequence of one-character strings.              *)
(***************************************************************************)
EXTENDS Integers, Sequences, FiniteSets, TLC

(* ---------------- program constants ---------------- *)
MAX_REQUESTS_PER_WINDOW == 5
RATE_LIMIT_WINDOW_SECONDS == 60
SERVER_API_KEY == "secret"

(* ---------------- bounds of the model ---------------- *)
TicksPerSecond == 2
MaxWindows == 2
MaxRest == 3
MaxCalls == 7
MaxWorkers == 2

WindowTicks == RATE_LIMIT_WINDOW_SECONDS * TicksPerSecond

(* The instants at which the clock is read: around the start of each     *)
(* window, one tick and one second after it.                             *)
TimePoints ==
  { k * WindowTicks + o : k \in 0..(MaxWindows - 1), o \in {0, 1, TicksPerSecond} }

(* REQUEST_LOGS: the module-level defaultdict(deque)                       *)
(* clock:        what time.time() returns                                  *)
(* ollama_text:  the "response" text the upstream model answers with       *)
(* last:         the last request handled, the log before it, its response *)
(* calls:        history of the requests that reached the rate limiter     *)
(* threads:      where each handler thread stands in lines 72-89           *)
VARIABLES REQUEST_LOGS, clock, ollama_text, last, calls, threads

vars == <<REQUEST_LOGS, clock, ollama_text, last, calls, threads>>

(* ---------------- text helpers (Python str methods) ---------------- *)
UPPER == <<"A","B","C","D","E","F","G","H","I","J","K","L","M",
           "N","O","P","Q","R","S","T","U","V","W","X","Y","Z">>
LOWER == <<"a","b","c","d","e","f","g","h","i","j","k","l","m",
           "n","o","p","q","r","s","t","u","v","w","x","y","z">>

lower_char(c) ==
  IF \E i \in 1..26 : UPPER[i] = c
  THEN LOWER[CHOOSE i \in 1..26 : UPPER[i] = c]
  ELSE c

lower(s) == [i \in 1..Len(s) |-> lower_char(s[i])]

IsSpace(c) == c \in {" ", "\t", "\n"}

RECURSIVE lstrip(_)
lstrip(s) == IF s # <<>> /\ IsSpace(Head(s)) THEN lstrip(Tail(s)) ELSE s

RECURSIVE rstrip(_)
rstrip(s) ==
  IF s # <<>> /\ IsSpace(s[Len(s)]) THEN rstrip(SubSeq(s, 1, Len(s) - 1)) ELSE s

strip(s) == rstrip(lstrip(s))

startswith(s, p) == Len(s) >= Len(p) /\ SubSeq(s, 1, Len(p)) = p

endswith(s, p) == Len(s) >= Len(p) /\ SubSeq(s, Len(s) - Len(p) + 1, Len(s)) = p

(* s[n:] *)
slice_from(s, n) == SubSeq(s, n + 1, Len(s))

(* s[1:-1] *)
slice_inner(s) == SubSeq(s, 2, Len(s) - 1)

PREFIX_QUERY_IS == <<"t","h","e"," ","q","u","e","r","y"," ","i","s",":">>
PREFIX_MAPS_QUERY ==
  <<"g","o","o","g","l","e"," ","m","a","p","s"," ",
    "s","e","a","r","c","h"," ","q","u","e","r","y",":">>
QUOTE == <<"\"">>

strip_prefix_untrimmed(s) ==
  IF startswith(lower(s), PREFIX_QUERY_IS)
  THEN slice_from(s, Len(PREFIX_QUERY_IS))
  ELSE IF startswith(lower(s), PREFIX_MAPS_QUERY)
       THEN slice_from(s, Len(PREFIX_MAPS_QUERY))
       ELSE s

(* lines 119-130: the cleaning of the upstream "response" text *)
strip_prefix(s) ==
  IF startswith(lower(s), PREFIX_QUERY_IS)
  THEN strip(slice_from(s, Len(PREFIX_QUERY_IS)))
  ELSE IF startswith(lower(s), PREFIX_MAPS_QUERY)
       THEN strip(slice_from(s, Len(PREFIX_MAPS_QUERY)))
       ELSE s

strip_quotes(s) ==
  IF startswith(s, QUOTE) /\ endswith(s, QUOTE) THEN slice_inner(s) ELSE s

normalize(text) == strip_quotes(strip_prefix(strip(text)))

(* ---------------- output events of a response ---------------- *)
Ev(e, n, k, t) == [ev |-> e, name |-> n, num |-> k, text |-> t]

set_headers(status_code, content_type) ==
  << Ev("send_response", "", status_code, ""),
     Ev("send_header", "Content-type", 0, content_type),
     Ev("send_header", "Access-Control-Allow-Origin", 0, "*"),
     Ev("send_header", "Access-Control-Allow-Methods", 0, "POST, OPTIONS"),
     Ev("send_header", "Access-Control-Allow-Headers", 0, "Content-Type, X-API-Key"),
     Ev("end_headers", "", 0, "") >>

write(t) == << Ev("write", "", 0, t) >>

(* ---------------- rate limiter ---------------- *)
(* REQUEST_LOGS is a defaultdict(deque): reading a missing key creates it *)
Touch(logs, k) == IF k \in DOMAIN logs THEN logs ELSE logs @@ (k :> <<>>)

RECURSIVE PruneOld_inclusive(_, _)
PruneOld_inclusive(log, now) ==
  IF log # <<>> /\ Head(log) <= now - WindowTicks
  THEN PruneOld_inclusive(Tail(log), now)
  ELSE log

PruneOld_once(log, now) ==
  IF log # <<>> /\ Head(log) < now - WindowTicks THEN Tail(log) ELSE log

(* lines 75-77: popleft while the front is older than the window *)
RECURSIVE PruneOld(_, _)
PruneOld(log, now) ==
  IF log # <<>> /\ Head(log) < now - WindowTicks
  THEN PruneOld(Tail(log), now)
  ELSE log

LimitExceeded_strict(log) == Len(log) > MAX_REQUESTS_PER_WINDOW

(* line 80 *)
LimitExceeded(log) == Len(log) >= MAX_REQUESTS_PER_WINDOW

LogRequest_twice(log, current_time) == Append(Append(log, current_time), current_time)

LogRequest_front(log, current_time) == <<current_time>> \o log

(* line 89: REQUEST_LOGS[client_identifier].append(current_time) *)
LogRequest(log, current_time) == Append(log, current_time)

(* int(): truncation toward zero of n / d, d > 0 *)
IntTrunc(n, d) == IF n >= 0 THEN n \div d ELSE -((-n) \div d)

RetryAfter_truncated(log, now) == IntTrunc(WindowTicks - (now - log[1]), TicksPerSecond)

(* line 83: int(WINDOW - (current_time - log[0])) + 1 *)
RetryAfter(log, now) == IntTrunc(WindowTicks - (now - log[1]), TicksPerSecond) + 1

(* ---------------- the request handler ---------------- *)
NONE == "<None>"

Unauthorized_missing_only(client_api_key) ==
  client_api_key = NONE \/ client_api_key = ""

(* line 62: not client_api_key or client_api_key != SERVER_API_KEY *)
Unauthorized(client_api_key) ==
  client_api_key = NONE \/ client_api_key = "" \/ client_api_key # SERVER_API_KEY

(* line 93: int(self.headers['Content-Length']) raises TypeError when the *)
(* header is missing and ValueError when it is not a number               *)
ContentLengthRaises(content_length) == content_length \in {"missing", "not_a_number"}

(* lines 94-101: which body makes decode()/json.loads()/body.get() raise,  *)
(* and whether the except clause (json.JSONDecodeError only) catches it    *)
BodyOutcome(body) ==
  CASE body = "invalid_utf8"    -> "uncaught"   \* UnicodeDecodeError
    [] body = "malformed_json"  -> "bad_json"   \* json.JSONDecodeError
    [] body = "json_non_object" -> "uncaught"   \* AttributeError: no .get
    [] OTHER                    -> "parsed"

(* lines 115-139: the outcome of the try block around the upstream call *)
(*   ConnectionError    requests.post cannot reach the endpoint           *)
(*   HTTPError          raise_for_status() on a 4xx/5xx answer            *)
(*   invalid_json       llm_response.json() raises                        *)
(*   json_non_object    llm_json has no .get (AttributeError)             *)
(*   response_not_text  the "response" value has no .strip                *)
UpstreamFailures ==
  {"ConnectionError", "HTTPError", "invalid_json", "json_non_object",
   "response_not_text"}

UpstreamFailureStatus_no_503(kind) == 500

(* lines 132-139: except ConnectionError -> 503, except Exception -> 500 *)
UpstreamFailureStatus(kind) == IF kind = "ConnectionError" THEN 503 ELSE 500

UpstreamCalls_retry(req) == IF req.upstream \in UpstreamFailures THEN 2 ELSE 1

(* line 116: one requests.post per request, outside any loop *)
UpstreamCalls(req) == 1

(* line 119: llm_json.get("response", "") *)
UpstreamText(req, text) == IF req.upstream = "no_response_field" THEN <<>> ELSE text

(* line 141: if not raw_query *)
EmptyQuery(raw_query) == raw_query = <<>>

Response(status, events, logs, stages, retry_after, n_calls, prompt, query) ==
  [status |-> status, events |-> events, logs |-> logs, stages |-> stages,
   retry_after |-> retry_after, upstream_calls |-> n_calls,
   prompt |-> prompt, query |-> query, payload |-> <<>>]

(* an exception leaves do_POST: socketserver logs it and closes the       *)
(* connection, nothing has been written                                   *)
Uncaught(logs, stages) == Response(0, <<>>, logs, stages, 0, 0, "", <<>>)

(* ---------------- the success payload ---------------- *)
GOOGLE_MAPS_API_KEY == "maps-key"

(* line 146: urllib.parse.quote(raw_query): letters, digits and _.-~/ are   *)
(* kept, every other character becomes %XX of its UTF-8 byte                *)
quote_char(c) ==
  CASE c = " "  -> <<"%", "2", "0">>
    [] c = "\"" -> <<"%", "2", "2">>
    [] c = "\t" -> <<"%", "0", "9">>
    [] c = "\n" -> <<"%", "0", "A">>
    [] c = ":"  -> <<"%", "3", "A">>
    [] OTHER    -> <<c>>

RECURSIVE quote(_)
quote(s) == IF s = <<>> THEN <<>> ELSE quote_char(Head(s)) \o quote(Tail(s))

(* line 151 *)
maps_link(query_encoded) ==
  << "https://www.google.com/maps/search/?api=1&query=" >> \o query_encoded

(* line 160 *)
map_embed_url(query_encoded) ==
  << "https://www.google.com/maps/embed/v1/place?key=", GOOGLE_MAPS_API_KEY, "&q=" >>
    \o query_encoded

response_data_one_link(prompt, raw_query) ==
  LET query_encoded == quote(raw_query) IN
  [original_prompt |-> prompt,
   llm_query_extracted |-> raw_query,
   Maps_interactive_link |-> maps_link(query_encoded),
   Maps_embed_iframe_url |-> maps_link(query_encoded)]

(* lines 146-174 *)
response_data(prompt, raw_query) ==
  LET query_encoded == quote(raw_query) IN
  [original_prompt |-> prompt,
   llm_query_extracted |-> raw_query,
   Maps_interactive_link |-> maps_link(query_encoded),
   Maps_embed_iframe_url |-> map_embed_url(query_encoded)]

(* lines 103-177, after the body is parsed *)
Extract(req, logs, prompt, text) ==
  LET stages == <<"path", "auth", "limit", "body", "upstream">> IN
  IF req.upstream \in UpstreamFailures
  THEN LET st == UpstreamFailureStatus(req.upstream) IN
       Response(st,
                set_headers(st, "text/plain")
                  \o write(IF st = 503 THEN "Service Unavailable: Could not connect to Ollama."
                                       ELSE "LLM processing error"),
                logs, stages, 0, UpstreamCalls(req), prompt, <<>>)
  ELSE LET raw_query == normalize(UpstreamText(req, text)) IN
       IF EmptyQuery(raw_query)
       THEN Response(400,
                     set_headers(400, "text/plain")
                       \o write("Empty or invalid query extracted by LLM."),
                     logs, stages, 0, UpstreamCalls(req), prompt, raw_query)
       ELSE [ Response(200,
                       set_headers(200, "application/json") \o write("response_data"),
                       logs, stages, 0, UpstreamCalls(req), prompt, raw_query)
                EXCEPT !.payload = response_data(prompt, raw_query) ]

(* lines 92-101 *)
ProcessBody(req, logs, text) ==
  LET stages == <<"path", "auth", "limit", "body">> IN
  IF ContentLengthRaises(req.content_length) THEN Uncaught(logs, stages)
  ELSE IF BodyOutcome(req.body) = "uncaught" THEN Uncaught(logs, stages)
  ELSE IF BodyOutcome(req.body) = "bad_json"
  THEN Response(400, set_headers(400, "text/plain") \o write("Invalid JSON body"),
                logs, stages, 0, 0, "", <<>>)
  ELSE Extract(req, logs,
               IF req.body = "object_with_prompt" THEN req.prompt ELSE "", text)

(* lines 67-89 *)
RateLimit(req, logs, current_time, text) ==
  LET client_identifier == req.api_key
      created == Touch(logs, client_identifier)
      pruned == PruneOld(created[client_identifier], current_time)
      stages == <<"path", "auth", "limit">>
  IN IF LimitExceeded(pruned)
     THEN LET retry_after == RetryAfter(pruned, current_time) IN
          Response(429,
                   set_headers(429, "text/plain")
                     \o << Ev("send_header", "Retry-After", retry_after, "") >>
                     \o write("Too Many Requests."),
                   [created EXCEPT ![client_identifier] = pruned],
                   stages, retry_after, 0, "", <<>>)
     ELSE ProcessBody(req,
                      [created EXCEPT ![client_identifier] = LogRequest(pruned, current_time)],
                      text)

do_POST_logs_unauthorized(req, logs, current_time, text) ==
  IF req.path # "/places"
  THEN Response(404, set_headers(404, "text/plain") \o write("Not Found"),
                logs, <<"path">>, 0, 0, "", <<>>)
  ELSE IF Unauthorized(req.api_key)
  THEN Response(401,
                set_headers(401, "text/plain")
                  \o write("Unauthorized: Invalid or missing X-API-Key header."),
                [Touch(logs, req.api_key) EXCEPT
                   ![req.api_key] = PruneOld(@, current_time)],
                <<"path", "auth">>, 0, 0, "", <<>>)
  ELSE RateLimit(req, logs, current_time, text)

(* lines 53-177 *)
do_POST(req, logs, current_time, text) ==
  IF req.path # "/places"
  THEN Response(404, set_headers(404, "text/plain") \o write("Not Found"),
                logs, <<"path">>, 0, 0, "", <<>>)
  ELSE IF Unauthorized(req.api_key)
  THEN Response(401,
                set_headers(401, "text/plain")
                  \o write("Unauthorized: Invalid or missing X-API-Key header."),
                logs, <<"path", "auth">>, 0, 0, "", <<>>)
  ELSE RateLimit(req, logs, current_time, text)

(* lines 49-51 *)
do_OPTIONS(req, logs) ==
  Response(200, set_headers(200, "application/json"), logs, <<>>, 0, 0, "", <<>>)

(* the class defines no other do_<METHOD>: BaseHTTPRequestHandler answers *)
(* 501 Unsupported method                                                 *)
do_unsupported(req, logs) ==
  Response(501, << Ev("send_response", "", 501, ""),
                   Ev("send_header", "Content-Type", 0, "text/html;charset=utf-8"),
                   Ev("end_headers", "", 0, "") >> \o write("Unsupported method"),
           logs, <<>>, 0, 0, "", <<>>)

(* ---------------- requests the environment sends ---------------- *)
Req(m, p, k, cl, b, u) ==
  [method |-> m, path |-> p, api_key |-> k, content_length |-> cl,
   body |-> b, prompt |-> "find ramen", upstream |-> u]

Methods == {"POST", "OPTIONS", "GET"}
Paths == {"/places", "/other"}
ApiKeys == {NONE, "", "wrong", SERVER_API_KEY}
ContentLengths == {"ok", "missing", "not_a_number"}
Bodies == {"object_with_prompt", "object_without_prompt", "malformed_json",
           "json_non_object", "invalid_utf8"}
Upstreams == UpstreamFailures \cup {"no_response_field", "ok"}

(* every method and path, without and with the key; every credential on a POST *)
FrontRequests ==
  { Req(m, p, k, "ok", "object_with_prompt", "ok") :
      m \in Methods, p \in Paths, k \in {NONE, SERVER_API_KEY} }
  \cup { Req("POST", p, k, "ok", "object_with_prompt", "ok") :
           p \in Paths, k \in ApiKeys }
  \cup { Req("POST", p, NONE, "missing", "json_non_object", "ok") : p \in Paths }

(* every Content-Length and body of an authorized POST /places *)
BodyRequests ==
  { Req("POST", "/places", SERVER_API_KEY, cl, b, "ok") :
      cl \in ContentLengths, b \in Bodies }

(* every upstream outcome of an authorized POST /places with a JSON object *)
UpstreamRequests ==
  { Req("POST", "/places", SERVER_API_KEY, "ok", "object_with_prompt", u) :
      u \in Upstreams }

Requests == FrontRequests \cup BodyRequests \cup UpstreamRequests

(* ---------------- upstream texts for the normalisation ---------------- *)
RestAlphabet == {" ", "\"", "a"}

RECURSIVE SeqsUpTo(_, _)
SeqsUpTo(S, n) ==
  IF n = 0 THEN { <<>> }
  ELSE LET shorter == SeqsUpTo(S, n - 1) IN
       shorter \cup { Append(q, c) : q \in shorter, c \in S }

upper_char(c) ==
  IF \E i \in 1..26 : LOWER[i] = c
  THEN UPPER[CHOOSE i \in 1..26 : LOWER[i] = c]
  ELSE c

upper(s) == [i \in 1..Len(s) |-> upper_char(s[i])]

capitalize(s) == [i \in 1..Len(s) |-> IF i = 1 THEN upper_char(s[i]) ELSE s[i]]

PrefixVariants ==
  { <<>>,
    PREFIX_QUERY_IS, upper(PREFIX_QUERY_IS), capitalize(PREFIX_QUERY_IS),
    PREFIX_MAPS_QUERY, upper(PREFIX_MAPS_QUERY),
    PREFIX_QUERY_IS \o <<" ">> \o PREFIX_MAPS_QUERY,
    PREFIX_MAPS_QUERY \o PREFIX_QUERY_IS,
    SubSeq(PREFIX_QUERY_IS, 1, Len(PREFIX_QUERY_IS) - 1) }

RamenExample ==
  capitalize(PREFIX_QUERY_IS)
    \o <<" ", "\"", "b","e","s","t"," ","r","a","m","e","n"," ",
         "n","e","a","r"," ","m","e", "\"">>

ExtractTexts ==
  { lead \o pre \o rest :
      lead \in { <<>>, <<" ">> }, pre \in PrefixVariants,
      rest \in SeqsUpTo(RestAlphabet, MaxRest) }
  \cup { RamenExample }

ExtractRequest ==
  Req("POST", "/places", SERVER_API_KEY, "ok", "object_with_prompt", "ok")

(* ---------------- state machine ---------------- *)
NoRequest == Req("", "", NONE, "", "", "")

NothingHandled ==
  [req |-> NoRequest, now |-> 0, before |-> <<>>,
   resp |-> Response(0, <<>>, <<>>, <<>>, 0, 0, "", <<>>)]

Workers == 1..MaxWorkers

Idle == [pc |-> "idle", now |-> 0]

Init ==
  /\ REQUEST_LOGS = <<>>
  /\ clock = 0
  /\ ollama_text = <<"a">>
  /\ last = NothingHandled
  /\ calls = <<>>
  /\ threads = [w \in Workers |-> Idle]

Respond(req, resp) ==
  /\ REQUEST_LOGS' = resp.logs
  /\ last' = [req |-> req, now |-> clock, before |-> REQUEST_LOGS, resp |-> resp]
  /\ UNCHANGED <<clock, ollama_text, threads>>

Handled(req, resp) ==
  /\ Respond(req, resp)
  /\ UNCHANGED calls

(* handle_one_request dispatches on the method name; HTTPServer serves one *)
(* request at a time                                                       *)
HandlePOST(req) ==
  /\ req.method = "POST"
  /\ Handled(req, do_POST(req, REQUEST_LOGS, clock, ollama_text))

HandleOPTIONS(req) ==
  /\ req.method = "OPTIONS"
  /\ Handled(req, do_OPTIONS(req, REQUEST_LOGS))

HandleUnsupported(req) ==
  /\ req.method \notin {"POST", "OPTIONS"}
  /\ Handled(req, do_unsupported(req, REQUEST_LOGS))

(* time passes between requests; the clock never goes backwards *)
Tick ==
  /\ \E t \in TimePoints : t > clock /\ clock' = t
  /\ UNCHANGED <<REQUEST_LOGS, ollama_text, last, calls, threads>>

Next ==
  \/ \E req \in Requests : HandlePOST(req)
  \/ \E req \in Requests : HandleOPTIONS(req)
  \/ \E req \in Requests : HandleUnsupported(req)
  \/ Tick

Spec == Init /\ [][Next]_vars

(* the extractor applied to every upstream text of ExtractTexts *)
InitExtract ==
  /\ REQUEST_LOGS = <<>>
  /\ clock = 0
  /\ ollama_text \in ExtractTexts
  /\ last = NothingHandled
  /\ calls = <<>>
  /\ threads = [w \in Workers |-> Idle]

NextExtract == HandlePOST(ExtractRequest)

SpecExtract == InitExtract /\ [][NextExtract]_vars

(* ---- the requests that reach the limiter, with their history ---- *)
Call(t, allowed, retry_after) == [t |-> t, allowed |-> allowed, retry_after |-> retry_after]

(* the calls still within the window at time now, and the latest call *)
History(h, now) ==
  LET n == Len(h) IN
  IF n = 0 THEN h
  ELSE SelectSeq(SubSeq(h, 1, n - 1), LAMBDA c : now - c.t <= WindowTicks) \o <<h[n]>>

Recorded(h, resp, now) ==
  IF Len(resp.stages) >= 3
  THEN Append(History(h, now), Call(now, resp.status # 429, resp.retry_after))
  ELSE h

CallRequests ==
  { Req("POST", "/places", SERVER_API_KEY, "ok", "object_with_prompt", "ok"),
    Req("POST", "/places", SERVER_API_KEY, "missing", "object_with_prompt", "ok"),
    Req("POST", "/places", SERVER_API_KEY, "ok", "object_with_prompt", "ConnectionError"),
    Req("POST", "/places", "wrong", "ok", "object_with_prompt", "ok") }

RecordedPOST(req) ==
  /\ req.method = "POST"
  /\ Len(History(calls, clock)) < MaxCalls
  /\ LET resp == do_POST(req, REQUEST_LOGS, clock, ollama_text) IN
       /\ Respond(req, resp)
       /\ calls' = Recorded(calls, resp, clock)

NextCalls ==
  \/ \E req \in CallRequests : RecordedPOST(req)
  \/ Tick

SpecCalls == Init /\ [][NextCalls]_vars

(* ---- lines 72-89 statement by statement, one handler thread per request ---- *)
ServerAccepts_threading(th, w) == TRUE

(* lines 187-193: HTTPServer.serve_forever runs the handler of a request   *)
(* to its end before it accepts the next one                               *)
ServerAccepts(th, w) == \A v \in DOMAIN th : th[v].pc = "idle"

At(w, pc) == threads[w].pc = pc

Goto(w, pc) == threads' = [threads EXCEPT ![w].pc = pc]

(* an authorized POST /places is handed to do_POST *)
Begin(w) ==
  /\ At(w, "idle")
  /\ ServerAccepts(threads, w)
  /\ Len(calls) < MaxCalls
  /\ Goto(w, "clock")
  /\ UNCHANGED <<REQUEST_LOGS, clock, ollama_text, last, calls>>

(* line 72: current_time = time.time() *)
ReadClock(w) ==
  /\ At(w, "clock")
  /\ threads' = [threads EXCEPT ![w] = [pc |-> "prune", now |-> clock]]
  /\ UNCHANGED <<REQUEST_LOGS, clock, ollama_text, last, calls>>

(* lines 75-77: one test of the while condition, one popleft *)
Popleft(w) ==
  /\ At(w, "prune")
  /\ LET logs == Touch(REQUEST_LOGS, SERVER_API_KEY)
         log == logs[SERVER_API_KEY]
     IN IF log # <<>> /\ Head(log) < threads[w].now - WindowTicks
        THEN /\ REQUEST_LOGS' = [logs EXCEPT ![SERVER_API_KEY] = Tail(log)]
             /\ UNCHANGED threads
        ELSE /\ REQUEST_LOGS' = logs
             /\ Goto(w, "check")
  /\ UNCHANGED <<clock, ollama_text, last, calls>>

(* lines 80-86: the limit check; a denied request ends here *)
CheckLimit(w) ==
  /\ At(w, "check")
  /\ LET logs == Touch(REQUEST_LOGS, SERVER_API_KEY)
         log == logs[SERVER_API_KEY]
     IN IF LimitExceeded(log)
        THEN /\ calls' = Append(History(calls, threads[w].now),
                                Call(threads[w].now, FALSE, RetryAfter(log, threads[w].now)))
             /\ threads' = [threads EXCEPT ![w] = Idle]
             /\ REQUEST_LOGS' = logs
        ELSE /\ Goto(w, "append")
             /\ REQUEST_LOGS' = logs
             /\ UNCHANGED calls
  /\ UNCHANGED <<clock, ollama_text, last>>

(* line 89: the append; nothing after it touches REQUEST_LOGS *)
AppendNow(w) ==
  /\ At(w, "append")
  /\ LET logs == Touch(REQUEST_LOGS, SERVER_API_KEY) IN
       REQUEST_LOGS' = [logs EXCEPT ![SERVER_API_KEY] = LogRequest(@, threads[w].now)]
  /\ calls' = Append(History(calls, threads[w].now), Call(threads[w].now, TRUE, 0))
  /\ threads' = [threads EXCEPT ![w] = Idle]
  /\ UNCHANGED <<clock, ollama_text, last>>

NextThreads ==
  \/ \E w \in Workers : Begin(w)
  \/ \E w \in Workers : ReadClock(w)
  \/ \E w \in Workers : Popleft(w)
  \/ \E w \in Workers : CheckLimit(w)
  \/ \E w \in Workers : AppendNow(w)
  \/ Tick

SpecThreads == Init /\ [][NextThreads]_vars

(* ======================= properties ======================= *)
Max(a, b) == IF a >= b THEN a ELSE b

(* the last request went through the rate limiter: a POST to /places      *)
(* presenting the server secret                                           *)
LimiterRan ==
  /\ last.req.method = "POST"
  /\ last.req.path = "/places"
  /\ last.req.api_key = SERVER_API_KEY

LogOf(logs, k) == IF k \in DOMAIN logs THEN logs[k] ELSE <<>>

LogBefore == LogOf(last.before, last.req.api_key)
LogAfter == LogOf(REQUEST_LOGS, last.req.api_key)

Denied == last.resp.status = 429

(* allowed: not answered 429 and its timestamp recorded at the back *)
Allowed ==
  /\ last.resp.status # 429
  /\ LogAfter # <<>>
  /\ LogAfter[Len(LogAfter)] = last.now

(* the entries of a log that are within the window at time now *)
WithinWindow(log, now) == SelectSeq(log, LAMBDA t : now - t <= WindowTicks)

(* C1: once MAX_REQUESTS_PER_WINDOW requests are in the log, the oldest at *)
(* t0, a further request at now is denied with 429 when now - t0 is at     *)
(* most the window and allowed when now - t0 exceeds the window; a request *)
(* denied one second after t0 reports a retry-after of window - 1 or       *)
(* window seconds (59 or 60).                                              *)
C1_SlidingWindow ==
  (LimiterRan /\ Len(LogBefore) = MAX_REQUESTS_PER_WINDOW) =>
    LET t0 == LogBefore[1] IN
    /\ (last.now - t0 <= WindowTicks => Denied)
    /\ (last.now - t0 > WindowTicks => Allowed)
    /\ (last.now - t0 = TicksPerSecond =>
          last.resp.retry_after \in
            {RATE_LIMIT_WINDOW_SECONDS - 1, RATE_LIMIT_WINDOW_SECONDS})

(* five requests at t0, the sixth one second past the window is allowed *)
C1_Witness ==
  /\ LimiterRan
  /\ Len(LogBefore) = MAX_REQUESTS_PER_WINDOW
  /\ \A i \in 1..Len(LogBefore) : LogBefore[i] = LogBefore[1]
  /\ last.now - LogBefore[1] = WindowTicks + TicksPerSecond
  /\ Allowed

(* C2: the log of every identity never holds more than                     *)
(* MAX_REQUESTS_PER_WINDOW timestamps, and a request that reaches the      *)
(* limiter is denied with 429 exactly when the entries of its log that are *)
(* still within the window number MAX_REQUESTS_PER_WINDOW or more.         *)
C2_LogBounded ==
  /\ \A k \in DOMAIN REQUEST_LOGS : Len(REQUEST_LOGS[k]) <= MAX_REQUESTS_PER_WINDOW
  /\ LimiterRan =>
       (Denied <=> Len(WithinWindow(LogBefore, last.now)) >= MAX_REQUESTS_PER_WINDOW)

(* a request denied with a full log, after older entries were pruned *)
C2_Witness ==
  /\ LimiterRan
  /\ Denied
  /\ Len(LogAfter) = MAX_REQUESTS_PER_WINDOW

(* numerator, in ticks, of window_seconds - (now - oldest remaining) *)
RemainingTicks == WindowTicks - (last.now - LogAfter[1])

CeilDiv(n, d) == IF n % d = 0 THEN n \div d ELSE (n \div d) + 1

(* C3 as stated: the retry-after of a denied request equals                *)
(* ceil(window_seconds - (now - oldest remaining)), with a minimum of 1.   *)
C3_RetryAfterIsCeil ==
  (LimiterRan /\ Denied) =>
    last.resp.retry_after = Max(1, CeilDiv(RemainingTicks, TicksPerSecond))

(* C3 amended: the retry-after r of a denied request is the integer with   *)
(* r - 1 <= window_seconds - (now - oldest remaining) < r, that is         *)
(* floor(...) + 1: the ceiling when the remaining time is not a whole      *)
(* number of seconds, the ceiling plus one when it is; r is at least 1 and *)
(* at most window_seconds + 1.                                             *)
C3_RetryAfterIsFloorPlusOne ==
  (LimiterRan /\ Denied) =>
    LET r == last.resp.retry_after IN
    /\ (r - 1) * TicksPerSecond <= RemainingTicks
    /\ RemainingTicks < r * TicksPerSecond
    /\ r >= 1
    /\ r <= RATE_LIMIT_WINDOW_SECONDS + 1
    /\ r = CeilDiv(RemainingTicks, TicksPerSecond)
             + (IF RemainingTicks % TicksPerSecond = 0 THEN 1 ELSE 0)

(* a denial a whole number of seconds before the oldest entry expires *)
C3_Witness ==
  /\ LimiterRan
  /\ Denied
  /\ RemainingTicks % TicksPerSecond = 0
  /\ RemainingTicks > 0

IndexOf(events, P(_)) == { i \in 1..Len(events) : P(events[i]) }

IsStatusLine(e) == e.ev = "send_response"
IsRetryAfter(e) == e.ev = "send_header" /\ e.name = "Retry-After"
IsEndHeaders(e) == e.ev = "end_headers"
IsWrite(e) == e.ev = "write"

(* C4: in the output events of a 429 response the Retry-After header comes *)
(* after the status line and before the header block is ended and the body *)
(* written.                                                                *)
C4_RetryAfterInHeaderBlock ==
  Denied =>
    \E j \in IndexOf(last.resp.events, IsRetryAfter) :
      /\ \E i \in IndexOf(last.resp.events, IsStatusLine) : i < j
      /\ \A k \in IndexOf(last.resp.events, IsEndHeaders) : j < k
      /\ \A k \in IndexOf(last.resp.events, IsWrite) : j < k

SomethingHandled == last.req.method # ""

NoValidKey == last.req.api_key # SERVER_API_KEY

(* C5 as stated: a request without the X-API-Key header, or with an empty  *)
(* or non-matching one, is answered 401 whatever its method, path and body *)
(* and whatever the rate-limit log holds.                                  *)
C5_NoKeyAlways401 ==
  (SomethingHandled /\ NoValidKey) => last.resp.status = 401

(* C5 amended: a POST to /places without the X-API-Key header, or with an  *)
(* empty or non-matching one, is answered 401 whatever its body and        *)
(* whatever the rate-limit log holds.                                      *)
C5_NoKeyPostPlaces401 ==
  (last.req.method = "POST" /\ last.req.path = "/places" /\ NoValidKey) =>
     last.resp.status = 401

(* a keyless POST /places with an ill-formed body, while the log is full *)
C5_Witness ==
  /\ last.req.method = "POST"
  /\ last.req.path = "/places"
  /\ last.req.api_key = NONE
  /\ last.req.content_length = "missing"
  /\ Len(LogOf(REQUEST_LOGS, SERVER_API_KEY)) = MAX_REQUESTS_PER_WINDOW
  /\ last.resp.status = 401

(* C6: a request to any path other than /places is answered 404, for every *)
(* HTTP method and credential.                                             *)
C6_OtherPath404 ==
  (SomethingHandled /\ last.req.path # "/places") => last.resp.status = 404

(* one complete response: a status line first, then headers, the header    *)
(* block ended once, then the body                                         *)
CompleteResponse(events, status) ==
  /\ events # <<>>
  /\ IsStatusLine(events[1])
  /\ events[1].num = status
  /\ Cardinality(IndexOf(events, IsStatusLine)) = 1
  /\ Cardinality(IndexOf(events, IsEndHeaders)) = 1
  /\ \A i \in IndexOf(events, IsWrite) :
       \A k \in IndexOf(events, IsEndHeaders) : k < i

(* C7: every handled POST, whatever its headers and body, ends with        *)
(* exactly one complete response whose status is one of 200, 400, 401,     *)
(* 404, 429, 500, 503.                                                     *)
C7_AlwaysOneResponse ==
  last.req.method = "POST" =>
    /\ last.resp.status \in {200, 400, 401, 404, 429, 500, 503}
    /\ CompleteResponse(last.resp.events, last.resp.status)

ParseableBody ==
  /\ last.req.content_length = "ok"
  /\ last.req.body \in {"object_with_prompt", "object_without_prompt"}

(* C8: for an authorized request within the limit whose body parses, a     *)
(* connection failure of the upstream call is answered 503, every other    *)
(* failure of the call or of reading its answer is answered 500, and       *)
(* neither is answered 200.                                                *)
C8_UpstreamFailureStatus ==
  (LimiterRan /\ ~Denied /\ ParseableBody) =>
    /\ last.req.upstream = "ConnectionError" => last.resp.status = 503
    /\ last.req.upstream \in {"HTTPError", "invalid_json", "json_non_object",
                              "response_not_text"} => last.resp.status = 500
    /\ last.req.upstream \notin {"ok", "no_response_field"} =>
         /\ last.resp.status # 200
         /\ CompleteResponse(last.resp.events, last.resp.status)

(* the upstream is unreachable for an authorized request within the limit *)
C8_Witness ==
  /\ LimiterRan
  /\ Allowed
  /\ ParseableBody
  /\ last.req.upstream = "ConnectionError"
  /\ last.resp.status = 503

(* ---- the normalisation as the specification words it ---- *)
SetMin(S) == CHOOSE x \in S : \A y \in S : x <= y
SetMax(S) == CHOOSE x \in S : \A y \in S : x >= y

(* the text between its first and its last non-whitespace character *)
Trimmed(s) ==
  LET inked == { i \in 1..Len(s) : s[i] \notin {" ", "\t", "\n"} } IN
  IF inked = {} THEN <<>> ELSE SubSeq(s, SetMin(inked), SetMax(inked))

(* s starts with the label p, letter case ignored *)
HasLabel(s, p) ==
  /\ Len(s) >= Len(p)
  /\ \A i \in 1..Len(p) : s[i] = p[i] \/ s[i] = upper_char(p[i])

WithoutLabel(s) ==
  IF HasLabel(s, PREFIX_QUERY_IS) \/ HasLabel(s, PREFIX_MAPS_QUERY)
  THEN LET n == IF HasLabel(s, PREFIX_QUERY_IS) THEN Len(PREFIX_QUERY_IS)
                                                ELSE Len(PREFIX_MAPS_QUERY)
       IN Trimmed([i \in 1..(Len(s) - n) |-> s[i + n]])
  ELSE s

Unquoted(s) ==
  IF s # <<>> /\ s[1] = "\"" /\ s[Len(s)] = "\""
  THEN [i \in 1..Max(Len(s) - 2, 0) |-> s[i + 1]]
  ELSE s

Reference(text) == Unquoted(WithoutLabel(Trimmed(text)))

UpstreamAnswered ==
  /\ last.req.method = "POST"
  /\ last.resp.status \in {200, 400}

HasInk(s) == \E i \in 1..Len(s) : s[i] \notin {" ", "\t", "\n"}

(* C9: whenever the upstream text is empty or whitespace-only after the    *)
(* normalisation, the response is 400 and never 200: every 200 response    *)
(* carries an extracted query with at least one non-whitespace character.  *)
C9_BlankQueryNever200 ==
  /\ (UpstreamAnswered /\ ~HasInk(Reference(ollama_text))) => last.resp.status = 400
  /\ last.resp.status = 200 => HasInk(last.resp.query)

(* C10: the query extracted from the upstream text is the text trimmed,    *)
(* without one leading label 'the query is:' or 'google maps search        *)
(* query:' (case-insensitive) and trimmed again, and without one pair of   *)
(* surrounding double quotes; The query is: "best ramen near me" gives     *)
(* best ramen near me.                                                     *)
C10_NormalizationMatchesReference ==
  UpstreamAnswered =>
    /\ last.resp.query = Reference(ollama_text)
    /\ ollama_text = RamenExample =>
         last.resp.query = <<"b","e","s","t"," ","r","a","m","e","n"," ",
                             "n","e","a","r"," ","m","e">>

(* the example of the specification answered 200 *)
C10_Witness ==
  /\ ollama_text = RamenExample
  /\ last.resp.status = 200
  /\ last.resp.query = <<"b","e","s","t"," ","r","a","m","e","n"," ",
                         "n","e","a","r"," ","m","e">>

(* ---- the success payload ---- *)
RECURSIVE Unquote(_)
Unquote(s) ==
  IF s = <<>> THEN <<>>
  ELSE IF Head(s) = "%" /\ Len(s) >= 3
  THEN LET hex == <<s[2], s[3]>>
           c == CASE hex = <<"2", "0">> -> " "
                  [] hex = <<"2", "2">> -> "\""
                  [] hex = <<"0", "9">> -> "\t"
                  [] hex = <<"0", "A">> -> "\n"
                  [] hex = <<"3", "A">> -> ":"
                  [] OTHER -> "?"
       IN <<c>> \o Unquote(SubSeq(s, 4, Len(s)))
  ELSE <<Head(s)>> \o Unquote(Tail(s))

Payload == last.resp.payload

(* the part of a link after its first n elements *)
LinkQuery(link, n) == SubSeq(link, n + 1, Len(link))

BothLinksCarryTheQuery ==
  /\ Payload.Maps_interactive_link[1] = "https://www.google.com/maps/search/?api=1&query="
  /\ SubSeq(Payload.Maps_embed_iframe_url, 1, 3) =
       << "https://www.google.com/maps/embed/v1/place?key=", GOOGLE_MAPS_API_KEY, "&q=" >>
  /\ LinkQuery(Payload.Maps_interactive_link, 1) = LinkQuery(Payload.Maps_embed_iframe_url, 3)
  /\ Unquote(LinkQuery(Payload.Maps_interactive_link, 1)) = Payload.llm_query_extracted
  /\ \A i \in 2..Len(Payload.Maps_interactive_link) :
       Payload.Maps_interactive_link[i] \notin {" ", "\"", "\t", "\n", ":"}

(* C11 as stated: every 200 payload contains the original prompt, the      *)
(* extracted query, the raw upstream text and both map links, the links    *)
(* built from the same encoded query.                                      *)
C11_PayloadHasRawText ==
  last.resp.status = 200 =>
    /\ Payload.original_prompt = last.req.prompt
    /\ Payload.llm_query_extracted = Reference(ollama_text)
    /\ \E f \in DOMAIN Payload \ {"original_prompt"} : Payload[f] = ollama_text
    /\ BothLinksCarryTheQuery

(* C11 amended: every 200 payload contains the original prompt, the        *)
(* extracted query and both map links, the links built from the same       *)
(* encoded query, and nothing else: the raw upstream text is not in it.    *)
C11_PayloadFields ==
  last.resp.status = 200 =>
    /\ DOMAIN Payload = {"original_prompt", "llm_query_extracted",
                         "Maps_interactive_link", "Maps_embed_iframe_url"}
    /\ Payload.original_prompt = last.req.prompt
    /\ Payload.llm_query_extracted = Reference(ollama_text)
    /\ BothLinksCarryTheQuery

(* a 200 whose query differs from the raw text and needs encoding *)
C11_Witness ==
  /\ last.resp.status = 200
  /\ ollama_text # Payload.llm_query_extracted
  /\ \E i \in 1..Len(Payload.llm_query_extracted) : Payload.llm_query_extracted[i] = " "
  /\ Len(Payload.Maps_interactive_link) > 1 + Len(Payload.llm_query_extracted)

(* ---- frame of the rejections, effect of a counted request ---- *)
SameLogs(a, b) ==
  /\ DOMAIN a = DOMAIN b
  /\ \A k \in DOMAIN a : a[k] = b[k]

(* C12: a request rejected with 404 or 401 leaves the rate-limit state as  *)
(* it was: no log is created for the credential it presents, no timestamp  *)
(* is pruned or appended in any log, and no upstream call is made.         *)
C12_RejectionLeavesLogs ==
  last.resp.status \in {401, 404} =>
    /\ SameLogs(REQUEST_LOGS, last.before)
    /\ last.req.api_key # SERVER_API_KEY => last.req.api_key \notin DOMAIN REQUEST_LOGS
    /\ last.resp.upstream_calls = 0

(* a wrong key is rejected while the log holds an entry older than the window *)
C12_Witness ==
  /\ last.resp.status = 401
  /\ last.req.api_key = "wrong"
  /\ \E i \in 1..Len(LogOf(REQUEST_LOGS, SERVER_API_KEY)) :
       last.now - REQUEST_LOGS[SERVER_API_KEY][i] > WindowTicks

(* C16: in every reachable state the timestamps of each log are            *)
(* non-decreasing from front to back, the clock never going backwards,     *)
(* whenever the requests read the clock and append.                        *)
C16_LogsOrdered ==
  \A k \in DOMAIN REQUEST_LOGS :
    \A i, j \in 1..Len(REQUEST_LOGS[k]) :
      i < j => REQUEST_LOGS[k][i] <= REQUEST_LOGS[k][j]

(* a log of three different instants, the next request read the clock      *)
(* before time moved on and has yet to append                               *)
C16_Witness ==
  /\ Len(LogOf(REQUEST_LOGS, SERVER_API_KEY)) >= 3
  /\ REQUEST_LOGS[SERVER_API_KEY][1] < REQUEST_LOGS[SERVER_API_KEY][2]
  /\ REQUEST_LOGS[SERVER_API_KEY][2] < REQUEST_LOGS[SERVER_API_KEY][3]
  /\ \E w \in Workers : threads[w].pc = "append" /\ threads[w].now < clock

(* C17: a POST that passes the limit check appends exactly one timestamp,  *)
(* its own, whether it ends in 200, 400, 500 or 503; a request answered    *)
(* 404, 401 or 429 appends none; nothing later appends another or removes  *)
(* it.                                                                     *)
C17_OneTimestampPerCountedRequest ==
  /\ (last.req.method = "POST" /\ last.resp.status \in {200, 400, 500, 503}) =>
        LogAfter = Append(WithinWindow(LogBefore, last.now), last.now)
  /\ last.resp.status \in {401, 404} => SameLogs(REQUEST_LOGS, last.before)
  /\ last.resp.status = 429 => LogAfter = WithinWindow(LogBefore, last.now)

(* the upstream call failed after the timestamp was recorded *)
C17_Witness ==
  /\ LimiterRan
  /\ last.resp.status = 500
  /\ Len(LogBefore) >= 1
  /\ LogAfter = Append(WithinWindow(LogBefore, last.now), last.now)

(* C18: a request causes at most one upstream call, made only after the    *)
(* path check, the credential check, the rate-limit check and the body     *)
(* parse have passed, in this order; a failed call is not retried.         *)
C18_OneUpstreamCallAfterAllChecks ==
  /\ last.resp.upstream_calls <= 1
  /\ last.resp.upstream_calls = 1 =>
       /\ LimiterRan
       /\ Len(WithinWindow(LogBefore, last.now)) < MAX_REQUESTS_PER_WINDOW
       /\ ParseableBody
       /\ last.resp.stages = <<"path", "auth", "limit", "body", "upstream">>
  /\ (LimiterRan /\ ~Denied /\ ParseableBody) => last.resp.upstream_calls = 1

(* a failed upstream call *)
C18_Witness ==
  /\ last.req.upstream = "HTTPError"
  /\ last.resp.status = 500
  /\ last.resp.upstream_calls = 1

SecretLog == LogOf(REQUEST_LOGS, SERVER_API_KEY)

LastCall == calls[Len(calls)]

(* the calls whose timestamp is within the window of the most recent prune *)
CallsInWindow == SelectSeq(calls, LAMBDA c : LastCall.t - c.t <= WindowTicks)

AllowedInWindow == SelectSeq(CallsInWindow, LAMBDA c : c.allowed)

(* C13 as stated: after any sequence of N calls, N greater than            *)
(* MAX_REQUESTS_PER_WINDOW included, the number of entries retained in the *)
(* log equals the number of those calls whose timestamp is within the      *)
(* window of the most recent prune.                                        *)
C13_RetainedIsAllCallsInWindow ==
  calls # <<>> => Len(SecretLog) = Len(CallsInWindow)

(* C13 amended: the entries retained in the log are the timestamps of      *)
(* those calls that passed the limit check and lie within the window of    *)
(* the most recent prune; calls denied with 429 are not retained, so the   *)
(* log never holds more than MAX_REQUESTS_PER_WINDOW of them.              *)
C13_RetainedIsAllowedCallsInWindow ==
  calls # <<>> =>
    /\ Len(SecretLog) = Len(AllowedInWindow)
    /\ \A i \in 1..Len(SecretLog) : SecretLog[i] = AllowedInWindow[i].t
    /\ Len(SecretLog) <= MAX_REQUESTS_PER_WINDOW

(* more calls in the window than the limit, after older ones were pruned *)
C13_Witness ==
  /\ calls # <<>>
  /\ Len(CallsInWindow) > MAX_REQUESTS_PER_WINDOW
  /\ Len(SecretLog) = MAX_REQUESTS_PER_WINDOW
  /\ SecretLog[1] > 0

(* C15: from the pruning pass of a check at time now until the next check  *)
(* of the identity begins, its log holds no timestamp smaller than         *)
(* now - window.                                                           *)
C15_NothingOlderThanWindow ==
  calls # <<>> =>
    \A i \in 1..Len(SecretLog) : SecretLog[i] >= LastCall.t - WindowTicks

(* a check pruned several entries, and time has passed since *)
C15_Witness ==
  /\ calls # <<>>
  /\ LimiterRan
  /\ last.now = LastCall.t
  /\ Len(LogBefore) >= Len(WithinWindow(LogBefore, last.now)) + 2
  /\ clock > last.now

(* C19: a client denied at time t with retry-after r, its identity         *)
(* receiving no other request in between, is allowed at its next request   *)
(* when that comes at t + r or later.                                      *)
C19_RetryAfterIsEnough ==
  \A i \in 1..(Len(calls) - 1) :
    ( /\ ~calls[i].allowed
      /\ calls[i + 1].t >= calls[i].t + calls[i].retry_after * TicksPerSecond )
    => calls[i + 1].allowed

(* a denial, then the next request exactly retry-after later, allowed *)
C19_Witness ==
  \E i \in 1..(Len(calls) - 1) :
    /\ ~calls[i].allowed
    /\ calls[i + 1].t = calls[i].t + calls[i].retry_after * TicksPerSecond
    /\ calls[i + 1].allowed

(* ---- requests handled while others arrive ---- *)
InLimiter == { w \in Workers : threads[w].pc # "idle" }

(* C14: the prune-check-append sequence of a request is never interleaved  *)
(* with that of another request, so two requests are never both allowed    *)
(* into one remaining slot: the allowed requests of a window never number  *)
(* more than MAX_REQUESTS_PER_WINDOW.                                      *)
C14_LimiterIsAtomic ==
  /\ Cardinality(InLimiter) <= 1
  /\ Len(SecretLog) <= MAX_REQUESTS_PER_WINDOW
  /\ calls # <<>> => Len(AllowedInWindow) <= MAX_REQUESTS_PER_WINDOW

(* one slot remains and a request is about to take it; a request was       *)
(* denied earlier                                                          *)
C14_Witness ==
  /\ \E w \in Workers : threads[w].pc = "append"
  /\ Len(SecretLog) = MAX_REQUESTS_PER_WINDOW - 1
  /\ \E i \in 1..Len(calls) : ~calls[i].allowed

====
